---- MODULE Spec2Model ----
(***************************************************************************)
(* Model of the Turbopack hot reloader                                     *)
(* (packages/next/src/server/dev/hot-reloader-turbopack.ts).               *)
(*                                                                         *)
(* State: the entrypoint directory (curEntries, curAppEntries), the change *)
(* subscription registry, the issue ledger, the building / ready sets, the *)
(* pending HMR payloads, the connected clients, and the position of every  *)
(* asynchronous task (handleEntries, each ensurePage call, each change     *)
(* subscription's callback).  One action is one run of a task from one     *)
(* await to the next.                                                      *)
(***************************************************************************)
EXTENDS Integers, Sequences, FiniteSets, TLC

\* ------------------------------------------------------------------ bounds
MaxEnsure == 2        \* ensurePage calls in one behaviour
MaxSnapshots == 1     \* snapshots emitted after the one handled during construction
MaxChanges == 2       \* change events the engine emits on change streams
MaxQueue == 3         \* keyed enqueues between flushes in the coalescer specification

\* --------------------------------------------------------------- universe
Pathnames == {"/a", "/b"}
None == "none"

\* route.type of the routes the engine may report under each pathname
TypesOf(pathname) ==
  IF pathname = "/a" THEN {None, "page", "page-api"}
  ELSE {None, "app-page", "app-route"}

\* page.originalName / route.originalName of an app-router route
OriginalName(pathname, type) ==
  IF type = "app-page" THEN pathname \o "/page" ELSE pathname \o "/route"

AppNames == {OriginalName(p, t) : p \in {"/b"}, t \in {"app-page", "app-route"}}

\* every string used as a `page` argument
Pages == Pathnames \cup AppNames \cup {"middleware", "_document"}

Phases == {"server", "client"}

\* const key = `${page} (${type})`
SubscriptionKey(page, type) == page \o " (" \o type \o ")"

SubscriptionKeys == {SubscriptionKey(p, t) : p \in Pages, t \in Phases}

\* pathname.replace(/ \((?:client|server)\)$/, '')
RawPathname(key) ==
  CHOOSE p \in Pages : key \in {SubscriptionKey(p, t) : t \in Phases}

\* ----------------------------------------------------------------- issues
Err1 == [severity |-> "error", filePath |-> "[project]/x.js", title |-> "x"]
Fatal1 == [severity |-> "fatal", filePath |-> "[project]/y.js", title |-> "y"]
Warn1 == [severity |-> "warning", filePath |-> "[project]/x.js", title |-> "w"]
DepErr1 ==
  [severity |-> "error", filePath |-> "[project]/node_modules/d.js", title |-> "d"]

\* issues lists a writeToDisk / change result may carry
EndpointResults == {{}, {Warn1, DepErr1}, {Err1, Fatal1, DepErr1}}
\* ... of the middleware endpoint
MiddlewareResults == {{}, {Err1}}
\* ... of the _app and _document endpoints
ShellResults == {{}}
\* ... of a change event of a subscription opened with includeIssues = true
ChangeIssues == {{}, {Err1}, {Fatal1}}

\* filePath.replace('[project]/', './')
FormattedFilePath(filePath) ==
  CASE filePath = "[project]/x.js" -> "./x.js"
    [] filePath = "[project]/y.js" -> "./y.js"
    [] filePath = "[project]/node_modules/d.js" -> "./node_modules/d.js"
    [] OTHER -> filePath

FormatIssue(issue) ==
  FormattedFilePath(issue.filePath) \o "\n" \o issue.title \o "\n"

IssueKey(issue) == <<issue.severity, issue.filePath, issue.title>>

\* a path test that finds no dependency directory
NoDependencyPath(filePath) == FALSE

\* /(^|\/)node_modules(\/|$)/.test(issue.filePath)
InNodeModules(filePath) == filePath \in {"[project]/node_modules/d.js"}

\* a severity test that lets every severity through
AnySeverity(issue) == TRUE

\* a severity test that forgets 'fatal'
IsErrorSeverity(issue) == issue.severity = "error"

IsBlockingSeverity(issue) == issue.severity = "error" \/ issue.severity = "fatal"

\* the new bucket processIssues stores under `name`
NewIssues(result) == {issue \in result : IsBlockingSeverity(issue)}

\* the formatted messages processIssues collects for the throw decision
RelevantIssues(result) ==
  {FormatIssue(issue) :
     issue \in {i \in result : IsBlockingSeverity(i) /\ ~InNodeModules(i.filePath)}}

\* a recording that adds to the bucket
MergeBucket(ledger, name, result) ==
  [n \in DOMAIN ledger \cup {name} |->
     IF n = name
     THEN NewIssues(result) \cup (IF n \in DOMAIN ledger THEN ledger[n] ELSE {})
     ELSE ledger[n]]

\* issues.set(name, newIssues)
SetBucket(ledger, name, result) ==
  [n \in DOMAIN ledger \cup {name} |->
     IF n = name THEN NewIssues(result) ELSE ledger[n]]

\* whether processIssues(issues, name, result, throwIssue) throws
ProcessIssuesThrows(result, throwIssue) ==
  RelevantIssues(result) # {} /\ throwIssue

DeleteBucket(ledger, name) == [n \in DOMAIN ledger \ {name} |-> ledger[n]]

VARIABLES
  curEntries,            \* pathname -> route.type
  curAppEntries,         \* originalName -> pathname of the route
  globalEntries,         \* which of app / document endpoints exist
  changeSubscriptions,   \* key -> [open, busy]
  orphanCallbacks,       \* middleware callbacks still running after their stream was removed
  prevMiddleware,
  entriesHandling,       \* handleEntries: position and the snapshot in hand
  issues,                \* name -> set of issues
  buildingIds, readyIds,
  loading,               \* consoleStore loading flag
  hmrPayloads,           \* insertion-ordered Map as a sequence of [key, payload]
  turbopackUpdates,
  flushScheduled,        \* a debounce timer is pending
  batch,                 \* history: what was enqueued since the last flush that sent
  hmrHash,
  clients,
  ensure,                \* slot -> the ensurePage call running in it
  ensureCalls,           \* ensurePage calls made so far
  outcome,               \* the ensurePage call that returned or threw in the last step
  changesEmitted, snapshotsEmitted,
  updateInfo,            \* messages of updateInfoSubscribe not yet consumed
  clientToHmrSubscription, \* client -> id -> position of the raw subscription's task
  closing,               \* clients the server called close() on, close event pending
  unrecognized,          \* history: clients whose message listener threw
  hmrSubscribed,         \* history: <<client, id>> of a connected client whose last
                         \* message for the id asked to subscribe
  sent                   \* wire messages the last step sent: sequence of [to, msg]

vars ==
  <<curEntries, curAppEntries, globalEntries, changeSubscriptions, orphanCallbacks,
    prevMiddleware, entriesHandling, issues, buildingIds, readyIds, loading,
    hmrPayloads, turbopackUpdates, flushScheduled, batch, hmrHash, clients,
    ensure, ensureCalls, outcome, changesEmitted, snapshotsEmitted, updateInfo,
    clientToHmrSubscription, closing, unrecognized, hmrSubscribed, sent>>

dirVars == <<curEntries, curAppEntries, globalEntries>>
subVars == <<changeSubscriptions, orphanCallbacks>>
buildVars == <<buildingIds, readyIds, loading>>
queueVars == <<hmrPayloads, turbopackUpdates, flushScheduled, batch>>
ensureVars == <<ensure, ensureCalls>>
rawVars == <<clientToHmrSubscription, closing, unrecognized, hmrSubscribed>>

\* ------------------------------------------------- build trigger (359-396)
BuildState == [building |-> buildingIds, ready |-> readyIds, loading |-> loading]

\* a startBuilding that never short-circuits
NeverShortCircuits(st, id, forceRebuild) == FALSE

\* if (!forceRebuild && readyIds.has(id)) return () => {}
ShortCircuits(st, id, forceRebuild) == ~forceRebuild /\ id \in st.ready

\* startBuilding(id, requestUrl, forceRebuild): the state after the call and
\* the completion handle it returns (inert: the `() => {}` of the short-circuit)
StartBuilding(st, id, forceRebuild) ==
  IF ShortCircuits(st, id, forceRebuild)
  THEN [building |-> st.building, ready |-> st.ready, loading |-> st.loading,
        handle |-> [id |-> id, inert |-> TRUE]]
  ELSE [building |-> st.building \cup {id}, ready |-> st.ready,
        loading |-> IF st.building = {} THEN TRUE ELSE st.loading,
        handle |-> [id |-> id, inert |-> FALSE]]

\* a finishBuilding that leaves the loading flag alone
FinishKeepsLoading(st, handle) ==
  IF handle.inert \/ st.building = {}
  THEN [building |-> st.building, ready |-> st.ready, loading |-> st.loading]
  ELSE [building |-> st.building \ {handle.id},
        ready |-> st.ready \cup {handle.id},
        loading |-> st.loading]

\* finishBuilding(): the state after the completion handle ran
FinishBuilding(st, handle) ==
  IF handle.inert \/ st.building = {}
  THEN [building |-> st.building, ready |-> st.ready, loading |-> st.loading]
  ELSE [building |-> st.building \ {handle.id},
        ready |-> st.ready \cup {handle.id},
        loading |-> IF st.building \ {handle.id} = {} THEN FALSE ELSE st.loading]

NoHandle == [id |-> "", inert |-> TRUE]

\* ------------------------------------------------ event coalescer (398-431)
Msg(kind, pages) == [kind |-> kind, pages |-> pages, hash |-> 0, errors |-> {}]

MiddlewareChanges == Msg("middlewareChanges", <<>>)
ServerOnlyChanges(page) == Msg("serverOnlyChanges", <<page>>)
ClientChanges == Msg("clientChanges", <<>>)
ReloadPage == Msg("reloadPage", <<>>)
ServerComponentChanges == Msg("serverComponentChanges", <<>>)
Building == Msg("building", <<>>)
TurbopackConnected == Msg("turbopack-connected", <<>>)
Built(hash, errors) ==
  [kind |-> "built", pages |-> <<>>, hash |-> hash, errors |-> errors]
Sync(errors) == [kind |-> "sync", pages |-> <<>>, hash |-> 0, errors |-> errors]
TurbopackMessage(updates) ==
  [kind |-> "turbopack-message", pages |-> updates, hash |-> 0, errors |-> {}]

MapKeys(map) == {map[i].key : i \in 1..Len(map)}

\* a map that keeps the first payload of a key
KeepFirst(map, key, payload) ==
  IF key \in MapKeys(map) THEN map ELSE Append(map, [key |-> key, payload |-> payload])

\* Map.prototype.set on an insertion-ordered Map
MapSet(map, key, payload) ==
  IF key \in MapKeys(map)
  THEN [i \in 1..Len(map) |->
          IF map[i].key = key THEN [key |-> key, payload |-> payload] ELSE map[i]]
  ELSE Append(map, [key |-> key, payload |-> payload])

\* a sendHmr that drops the payload
DropHmr(map, key, id, payload) == map

\* sendHmr(key, id, payload): hmrPayloads.set(`${key}:${id}`, payload)
SendHmr(map, key, id, payload) == MapSet(map, key \o ":" \o id, payload)

\* a flush that sends every unkeyed update as a message of its own
SendsUpdatesApart(ledger, map, updates, to) ==
  IF \E n \in DOMAIN ledger : ledger[n] # {}
  THEN [sent |-> <<>>, hmrPayloads |-> map, turbopackUpdates |-> updates]
  ELSE [sent |-> [i \in 1..Len(map) |-> [to |-> to, msg |-> map[i].payload]]
                 \o [i \in 1..Len(updates) |->
                       [to |-> to,
                        msg |-> [kind |-> "turbopack-message", pages |-> <<updates[i]>>,
                                 hash |-> 0, errors |-> {}]]],
        hmrPayloads |-> <<>>, turbopackUpdates |-> <<>>]

\* a gate that never closes
NeverBlocks(ledger) == FALSE

\* the gate of sendEnqueuedMessages: some bucket is non-empty
LedgerBlocks(ledger) == \E n \in DOMAIN ledger : ledger[n] # {}

\* hotReloader.send(action): one wire message to every connected client
Send(to, msg) == [to |-> to, msg |-> msg]

\* sendEnqueuedMessages(): what it sends and what it leaves queued
SendEnqueuedMessages(ledger, map, updates, to) ==
  IF LedgerBlocks(ledger)
  THEN [sent |-> <<>>, hmrPayloads |-> map, turbopackUpdates |-> updates]
  ELSE [sent |-> [i \in 1..Len(map) |-> Send(to, map[i].payload)]
                 \o (IF Len(updates) > 0
                     THEN <<Send(to, TurbopackMessage(updates))>> ELSE <<>>),
        hmrPayloads |-> <<>>, turbopackUpdates |-> <<>>]

NoBatch ==
  [entries |-> <<>>, unkeyed |-> <<>>, gated |-> FALSE, flushed |-> FALSE,
   delivered |-> <<>>]

\* the history after one more enqueue: a batch starts after a flush that sent
Opened(b) == IF b.flushed THEN NoBatch ELSE b

\* sendHmr(key, id, payload) (420-425)
EnqueueHmr(key, id, payload) ==
  /\ hmrPayloads' = SendHmr(hmrPayloads, key, id, payload)
  /\ flushScheduled' = TRUE
  /\ batch' = [Opened(batch) EXCEPT
                 !.entries = Append(@, [key |-> key \o ":" \o id, payload |-> payload])]
  /\ UNCHANGED turbopackUpdates

\* sendTurbopackMessage(payload) (427-431)
EnqueueTurbopackMessage(update) ==
  /\ turbopackUpdates' = Append(turbopackUpdates, update)
  /\ flushScheduled' = TRUE
  /\ batch' = [Opened(batch) EXCEPT !.unkeyed = Append(@, update)]
  /\ UNCHANGED hmrPayloads

\* a call of sendEnqueuedMessages() on the present ledger and queues
Flush ==
  LET r == SendEnqueuedMessages(issues, hmrPayloads, turbopackUpdates, clients) IN
  /\ hmrPayloads' = r.hmrPayloads
  /\ turbopackUpdates' = r.turbopackUpdates
  /\ batch' = IF LedgerBlocks(issues) THEN [batch EXCEPT !.gated = ~batch.flushed]
              ELSE [Opened(batch) EXCEPT
                      !.flushed = TRUE,
                      !.delivered = [i \in 1..Len(r.sent) |-> r.sent[i].msg]]

\* ------------------------------------- change subscription manager (543-580)
Subscription(callback) == [open |-> TRUE, busy |-> FALSE, callback |-> callback]

\* a changeSubscription without the changeSubscriptions.has(key) test
Resubscribe(subs, page, type, endpoint, callback) ==
  IF ~endpoint
  THEN subs
  ELSE [k \in DOMAIN subs \cup {SubscriptionKey(page, type)} |->
          IF k = SubscriptionKey(page, type) THEN Subscription(callback) ELSE subs[k]]

\* changeSubscription(page, type, includeIssues, endpoint, makePayload) up to
\* its first await: a second call for a registered key returns at once
ChangeSubscription(subs, page, type, endpoint, callback) ==
  IF ~endpoint \/ SubscriptionKey(page, type) \in DOMAIN subs
  THEN subs
  ELSE [k \in DOMAIN subs \cup {SubscriptionKey(page, type)} |->
          IF k = SubscriptionKey(page, type) THEN Subscription(callback) ELSE subs[k]]

DeleteSubscription(subs, key) == [k \in DOMAIN subs \ {key} |-> subs[k]]

\* callbacks that keep running when their subscription is deleted
Orphaned(subs, key) == IF key \in DOMAIN subs /\ subs[key].busy THEN 1 ELSE 0

\* subscription.return?.()
CloseStream(subs, key) == [subs EXCEPT ![key].open = FALSE]

\* ------------------------------------------------ entrypoint directory (826-863)
RouteMaps == {r \in [Pathnames -> UNION {TypesOf(p) : p \in Pathnames}] :
                \A p \in Pathnames : r[p] \in TypesOf(p)}

\* what entrypointsSubscribe() may yield
Snapshots ==
  {[routes |-> r, middleware |-> m, app |-> TRUE, document |-> TRUE] :
     r \in RouteMaps, m \in BOOLEAN}

\* a route.type outside the cases of the switch over entrypoints.routes
UnknownTypes == {"conflict"}

\* ... snapshots that also carry routes of an unknown type
EverySnapshot ==
  {[routes |-> r, middleware |-> m, app |-> TRUE, document |-> TRUE] :
     r \in {x \in [Pathnames -> UNION {TypesOf(p) : p \in Pathnames} \cup UnknownTypes] :
              \A p \in Pathnames : x[p] \in TypesOf(p) \cup UnknownTypes},
     m \in BOOLEAN}

\* a directory that takes every route of the snapshot
EveryRoute(routes) == routes

IsAppType(type) == type \in {"app-page", "app-route"}
IsKnownType(type) == type \in {"page", "page-api", "app-page", "app-route"}

\* curEntries after the switch over entrypoints.routes
EntriesOf(routes) ==
  [p \in {q \in Pathnames : IsKnownType(routes[q])} |-> routes[p]]

\* curAppEntries after the switch over entrypoints.routes
AppEntriesOf(routes) ==
  [n \in {OriginalName(q, routes[q]) : q \in {x \in Pathnames : IsAppType(routes[x])}} |->
     CHOOSE q \in Pathnames : IsAppType(routes[q]) /\ n = OriginalName(q, routes[q])]

\* the keys the loop over changeSubscriptions closes and deletes
StaleSubscriptions(subs, entries, appEntries) ==
  {k \in DOMAIN subs :
     /\ RawPathname(k) # ""
     /\ RawPathname(k) \notin DOMAIN entries
     /\ RawPathname(k) \notin DOMAIN appEntries}

\* for (const [page] of issues) if (!curEntries.has(page)) issues.delete(page)
PruneIssues(ledger, entries) ==
  [n \in {m \in DOMAIN ledger : m \in DOMAIN entries} |-> ledger[n]]

\* clearChangeSubscription(page, type)
ClearChangeSubscription(subs, ledger, page, type) ==
  LET key == SubscriptionKey(page, type) IN
  [subs |-> IF key \in DOMAIN subs THEN DeleteSubscription(subs, key) ELSE subs,
   orphaned |-> Orphaned(subs, key),
   issues |-> DeleteBucket(ledger, key)]

\* handleEntries from the end of the subscription loop to its next await
\* (lines 880-901): prune the ledger, report a middleware transition
AfterSubscriptionLoop(snapshot, subs, orphans) ==
  LET pruned == PruneIssues(issues, curEntries')
      cleared == ClearChangeSubscription(subs, pruned, "middleware", "server")
  IN
  /\ IF prevMiddleware = "true" /\ ~snapshot.middleware
     THEN /\ changeSubscriptions' = cleared.subs
          /\ orphanCallbacks' = orphans + cleared.orphaned
          /\ issues' = cleared.issues
          /\ EnqueueHmr("entrypoint-change", "middleware", MiddlewareChanges)
     ELSE IF prevMiddleware = "false" /\ snapshot.middleware
     THEN /\ changeSubscriptions' = subs
          /\ orphanCallbacks' = orphans
          /\ issues' = pruned
          /\ EnqueueHmr("endpoint-change", "middleware", MiddlewareChanges)
     ELSE /\ changeSubscriptions' = subs
          /\ orphanCallbacks' = orphans
          /\ issues' = pruned
          /\ UNCHANGED queueVars
  /\ IF snapshot.middleware
     THEN /\ entriesHandling' = [pc |-> "middleware", snapshot |-> snapshot, key |-> ""]
          /\ UNCHANGED prevMiddleware
     ELSE /\ entriesHandling' = [pc |-> "final", snapshot |-> snapshot, key |-> ""]
          /\ prevMiddleware' = "false"

\* the subscription loop: close the next stale subscription and await it, or
\* fall through to the rest of the iteration
SubscriptionLoop(snapshot, subs, orphans) ==
  LET stale == StaleSubscriptions(subs, curEntries', curAppEntries') IN
  IF stale = {}
  THEN AfterSubscriptionLoop(snapshot, subs, orphans)
  ELSE \E k \in stale :
         /\ changeSubscriptions' = CloseStream(subs, k)
         /\ orphanCallbacks' = orphans
         /\ entriesHandling' = [pc |-> "prune", snapshot |-> snapshot, key |-> k]
         /\ UNCHANGED <<issues, queueVars, prevMiddleware>>

NoSnapshot ==
  [routes |-> [p \in Pathnames |-> None], middleware |-> FALSE, app |-> FALSE,
   document |-> FALSE]

\* handleEntries awaiting the next snapshot: currentEntriesHandling is resolved
Idle == [pc |-> "idle", snapshot |-> NoSnapshot, key |-> ""]

NoRequest == [page |-> "", pathname |-> "", isApp |-> FALSE, definition |-> FALSE]

NoPrior == [req |-> NoRequest, materialized |-> 0]

NoOutcome ==
  [req |-> NoRequest, type |-> None, error |-> "", message |-> {}, result |-> {},
   handle |-> NoHandle, materialized |-> 0, wasBuilding |-> FALSE, prior |-> NoPrior]

\* a step of a task other than an ensurePage call nearing its end
Quiet == sent' = <<>> /\ outcome' = NoOutcome

\* for await (const entrypoints of iter): a snapshot arrives (826-878)
HandleEntries(snapshot) ==
  /\ entriesHandling.pc = "idle"
  /\ snapshotsEmitted < MaxSnapshots
  /\ snapshotsEmitted' = snapshotsEmitted + 1
  /\ globalEntries' = [app |-> snapshot.app, document |-> snapshot.document]
  /\ curEntries' = EntriesOf(snapshot.routes)
  /\ curAppEntries' = AppEntriesOf(snapshot.routes)
  /\ SubscriptionLoop(snapshot, changeSubscriptions, orphanCallbacks)
  /\ Quiet
  /\ UNCHANGED <<buildVars, hmrHash, clients, rawVars, ensureVars, changesEmitted,
                 updateInfo>>

\* await subscription.return?.() resumes: changeSubscriptions.delete(pathname),
\* and the loop goes on (874-878)
HandleEntriesPruned ==
  /\ entriesHandling.pc = "prune"
  /\ UNCHANGED dirVars
  /\ SubscriptionLoop(entriesHandling.snapshot,
                      DeleteSubscription(changeSubscriptions, entriesHandling.key),
                      orphanCallbacks
                        + Orphaned(changeSubscriptions, entriesHandling.key))
  /\ Quiet
  /\ UNCHANGED <<buildVars, hmrHash, clients, rawVars, ensureVars, changesEmitted,
                 snapshotsEmitted, updateInfo>>

\* processMiddleware(): await middleware.endpoint.writeToDisk() returns; then
\* changeSubscription('middleware', 'server', ...) and prevMiddleware = true
\* (944-989)
HandleEntriesMiddleware(result) ==
  /\ entriesHandling.pc = "middleware"
  /\ issues' = SetBucket(issues, "middleware", result)
  /\ changeSubscriptions' =
       ChangeSubscription(changeSubscriptions, "middleware", "server", TRUE,
                          "middleware")
  /\ prevMiddleware' = "true"
  /\ entriesHandling' = [entriesHandling EXCEPT !.pc = "final"]
  /\ Quiet
  /\ UNCHANGED <<dirVars, orphanCallbacks, buildVars, queueVars, hmrHash, clients, rawVars,
                 ensureVars, changesEmitted, snapshotsEmitted, updateInfo>>

\* the last await propagateServerField returns: currentEntriesHandlingResolve()
\* (996-1004)
HandleEntriesDone ==
  /\ entriesHandling.pc = "final"
  /\ entriesHandling' = Idle
  /\ Quiet
  /\ UNCHANGED <<dirVars, subVars, prevMiddleware, issues, buildVars, queueVars,
                 hmrHash, clients, rawVars, ensureVars, changesEmitted, snapshotsEmitted,
                 updateInfo>>

\* ------------------------------------------------------- ensurePage (1415-1518)
Slots == 1..MaxEnsure

\* the arguments of an ensurePage call: routeDef.page, the pathname
\* (definition?.pathname ?? inputPage), isApp, and whether a definition came
Requests ==
  {[page |-> "/a", pathname |-> "/a", isApp |-> FALSE, definition |-> FALSE]}
  \cup {[page |-> name, pathname |-> "/b", isApp |-> TRUE, definition |-> TRUE] :
          name \in AppNames}
  \cup {[page |-> "/a", pathname |-> "/a", isApp |-> TRUE, definition |-> TRUE]}

\* ... and the requests that resolve to no route or through the other router:
\* an optional file the project lacks, and an app-router page asked for
\* without isApp
RoutingRequests ==
  Requests
  \cup {[page |-> "/middleware", pathname |-> "/middleware", isApp |-> FALSE,
         definition |-> FALSE]}
  \cup {[page |-> "/b/page", pathname |-> "/b", isApp |-> FALSE, definition |-> TRUE]}

\* the pages whose absence from the directory is not an error (1499-1505)
ExemptPages ==
  {"/_app", "/_document", "/middleware", "/src/middleware", "/instrumentation",
   "/src/instrumentation"}

\* a lookup without exemptions
NeverExempt(page) == FALSE

Exempt(page) == page \in ExemptPages

NoCall ==
  [pc |-> "none", req |-> NoRequest, type |-> None, handle |-> NoHandle,
   result |-> {}, materialized |-> 0, wasBuilding |-> FALSE, prior |-> NoPrior]

\* definition?.pathname ? curEntries.get(definition.pathname)
\*   : isApp ? curAppEntries.get(page) : curEntries.get(page)
RouteType(req) ==
  IF req.definition
  THEN IF req.pathname \in DOMAIN curEntries THEN curEntries[req.pathname] ELSE None
  ELSE IF req.isApp
  THEN IF req.page \in DOMAIN curAppEntries
       THEN curEntries[curAppEntries[req.page]] ELSE None
  ELSE IF req.page \in DOMAIN curEntries THEN curEntries[req.page] ELSE None

\* a request whose page is the name the directory gives its route: the router
\* derives both from the same files
Consistent(req) ==
  (req.pathname \in DOMAIN curEntries /\ IsAppType(curEntries[req.pathname]))
    => req.page = OriginalName(req.pathname, curEntries[req.pathname])

\* writeToDisk calls the engine has not answered yet
InFlight(calls) == Cardinality({slot \in DOMAIN calls : calls[slot].pc = "write"})

\* the engine's aggregate update stream: 'start' when work begins on an idle
\* engine, 'end' when the last piece of work is done
EngineStart(queue, calls) ==
  IF InFlight(calls) = 0 THEN Append(queue, "start") ELSE queue
EngineEnd(queue, calls) ==
  IF InFlight(calls) = 1 THEN Append(queue, "end") ELSE queue

\* whether handleRouteType calls the route's writeToDisk right after
\* startBuilding (every case but 'page', which writes _app and _document first)
WritesRouteFirst(type) == type # "page"

\* the record of a call that ended without reaching handleRouteType
Failed(req, error) == [NoOutcome EXCEPT !.req = req, !.error = error]

\* ensurePage up to the first await of handleRouteType (1491-1517, 1043-1053)
EnsurePage(slot, req) ==
  /\ ensure[slot].pc = "none"
  /\ \A other \in Slots : other < slot => ensure[other].pc # "none"
  /\ ensureCalls < MaxEnsure
  /\ ensureCalls' = ensureCalls + 1
  /\ entriesHandling.pc = "idle"
  /\ Consistent(req)
  /\ LET type == RouteType(req)
         st == StartBuilding(BuildState, req.pathname, FALSE)
     IN
     IF type = None
     THEN /\ outcome' = Failed(req, IF Exempt(req.page) THEN "" ELSE "PageNotFoundError")
          /\ UNCHANGED <<ensure, buildVars, updateInfo>>
     ELSE IF req.isApp /\ type = "page"
     THEN /\ outcome' = Failed(req, "Error")
          /\ UNCHANGED <<ensure, buildVars, updateInfo>>
     ELSE /\ ensure' = [ensure EXCEPT ![slot] =
                 [NoCall EXCEPT
                    !.pc = IF WritesRouteFirst(type) THEN "write" ELSE "app",
                    !.req = req, !.type = type, !.handle = st.handle,
                    !.materialized = IF WritesRouteFirst(type) THEN 1 ELSE 0,
                    !.wasBuilding = req.pathname \in st.building,
                    !.prior = [req |-> outcome.req,
                               materialized |-> outcome.materialized]]]
          /\ buildingIds' = st.building
          /\ readyIds' = st.ready
          /\ loading' = st.loading
          /\ updateInfo' =
               IF WritesRouteFirst(type) THEN EngineStart(updateInfo, ensure)
               ELSE updateInfo
          /\ outcome' = NoOutcome
  /\ sent' = <<>>
  /\ UNCHANGED <<dirVars, subVars, prevMiddleware, entriesHandling, issues,
                 queueVars, hmrHash, clients, rawVars, changesEmitted, snapshotsEmitted>>

\* case 'page': await globalEntries.app.writeToDisk() returns (1050-1058)
EnsureAppWritten(slot, result) ==
  /\ ensure[slot].pc = "app"
  /\ issues' = IF globalEntries.app THEN SetBucket(issues, "_app", result) ELSE issues
  /\ ensure' = [ensure EXCEPT ![slot].pc = "document"]
  /\ Quiet
  /\ UNCHANGED <<dirVars, subVars, prevMiddleware, entriesHandling, buildVars,
                 queueVars, hmrHash, clients, rawVars, ensureCalls, changesEmitted,
                 snapshotsEmitted, updateInfo>>

\* case 'page': await globalEntries.document.writeToDisk() returns, then
\* route.htmlEndpoint.writeToDisk() is called (1060-1072)
EnsureDocumentWritten(slot, result) ==
  /\ ensure[slot].pc = "document"
  /\ issues' =
       IF globalEntries.document THEN SetBucket(issues, "_document", result) ELSE issues
  /\ ensure' = [ensure EXCEPT ![slot].pc = "write",
                              ![slot].materialized = @ + 1]
  /\ updateInfo' = EngineStart(updateInfo, ensure)
  /\ Quiet
  /\ UNCHANGED <<dirVars, subVars, prevMiddleware, entriesHandling, buildVars,
                 queueVars, hmrHash, clients, rawVars, ensureCalls, changesEmitted,
                 snapshotsEmitted>>

\* case 'app-page': await pageRoute.htmlEndpoint.writeToDisk() returns and the
\* server subscription is armed before the manifests are loaded (1158-1180)
EnsureWritten(slot, result) ==
  /\ ensure[slot].pc = "write"
  /\ ensure[slot].type = "app-page"
  /\ changeSubscriptions' =
       ChangeSubscription(changeSubscriptions, ensure[slot].req.page, "server", TRUE,
                          "app-server")
  /\ ensure' = [ensure EXCEPT ![slot].pc = "manifests", ![slot].result = result]
  /\ updateInfo' = EngineEnd(updateInfo, ensure)
  /\ Quiet
  /\ UNCHANGED <<dirVars, orphanCallbacks, prevMiddleware, entriesHandling, issues,
                 buildVars, queueVars, hmrHash, clients, rawVars, ensureCalls,
                 changesEmitted, snapshotsEmitted>>

\* the subscriptions the 'page' case arms in its finally block (1089-1126)
PageSubscriptions(subs, page, document) ==
  ChangeSubscription(
    ChangeSubscription(
      ChangeSubscription(subs, page, "server", TRUE, "page-server"),
      page, "client", TRUE, "page-client"),
    "_document", "server", document, "document")

\* whether processIssues is called with throwIssue = true for this route type
ThrowsOnIssue(type) == IsAppType(type)

\* what the caller of ensurePage observes when handleRouteType ends
Returned(call, result) ==
  LET throws == ProcessIssuesThrows(result, ThrowsOnIssue(call.type)) IN
  [req |-> call.req, type |-> call.type,
   error |-> IF throws THEN "ModuleBuildError" ELSE "",
   message |-> IF throws THEN RelevantIssues(result) ELSE {},
   result |-> result, handle |-> call.handle, materialized |-> call.materialized,
   wasBuilding |-> call.wasBuilding, prior |-> call.prior]

\* handleRouteType from writeManifests() to its return or throw:
\* processIssues, the subscriptions of the 'page' case, finishBuilding
\* (1086-1126, 1147-1151, 1195-1199, 1217-1231)
FinishRoute(slot, result) ==
  LET call == ensure[slot]
      st == FinishBuilding(BuildState, call.handle)
  IN
  /\ issues' = SetBucket(issues, call.req.page, result)
  /\ changeSubscriptions' =
       IF call.type = "page"
       THEN PageSubscriptions(changeSubscriptions, call.req.page,
                              globalEntries.document)
       ELSE changeSubscriptions
  /\ buildingIds' = st.building
  /\ readyIds' = st.ready
  /\ loading' = st.loading
  /\ ensure' = [ensure EXCEPT ![slot] = NoCall]
  /\ outcome' = Returned(call, result)
  /\ sent' = <<>>
  /\ UNCHANGED <<dirVars, orphanCallbacks, prevMiddleware, entriesHandling,
                 queueVars, hmrHash, clients, rawVars, ensureCalls, changesEmitted,
                 snapshotsEmitted>>

\* cases 'page', 'page-api', 'app-route': the route's writeToDisk() returns and
\* the call runs to its end
EnsureFinish(slot, result) ==
  /\ ensure[slot].pc = "write"
  /\ ensure[slot].type # "app-page"
  /\ updateInfo' = EngineEnd(updateInfo, ensure)
  /\ FinishRoute(slot, result)

\* case 'app-page': writeManifests() returns and the call runs to its end
EnsureAppPageFinish(slot) ==
  /\ ensure[slot].pc = "manifests"
  /\ UNCHANGED updateInfo
  /\ FinishRoute(slot, ensure[slot].result)

\* ------------------------------------------- change events (558-566)
\* change.issues of a change event: streams opened with includeIssues = false
\* carry none
ChangeResults(callback) == IF callback = "app-server" THEN ChangeIssues ELSE {{}}

\* change.issues.some((issue) => issue.severity === 'error')
HasErrorIssue(result) == \E issue \in result : issue.severity = "error"

\* what makePayload returns; for the app-page callback nothing when the change
\* carries an error (1097-1104, 1111-1115, 1121-1124, 1168-1179)
PayloadOf(callback, page, result) ==
  CASE callback = "page-server" -> <<ServerOnlyChanges(page)>>
    [] callback = "page-client" -> <<ClientChanges>>
    [] callback = "document" -> <<ReloadPage>>
    [] callback = "app-server" ->
         IF HasErrorIssue(result) THEN <<>> ELSE <<ServerComponentChanges>>
    [] OTHER -> <<>>

\* readyIds.delete(page) of the server callbacks
ReadyAfterChange(ready, callback, page, result) ==
  CASE callback = "page-server" -> ready \ {page}
    [] callback = "app-server" ->
         IF HasErrorIssue(result) THEN ready ELSE ready \ {page}
    [] OTHER -> ready

\* one iteration of `for await (const change of changed)` for a callback that
\* does not suspend
ChangeFires(key, result) ==
  /\ key \in DOMAIN changeSubscriptions
  /\ changeSubscriptions[key].open
  /\ changeSubscriptions[key].callback # "middleware"
  /\ result \in ChangeResults(changeSubscriptions[key].callback)
  /\ changesEmitted < MaxChanges
  /\ changesEmitted' = changesEmitted + 1
  /\ LET page == RawPathname(key)
         callback == changeSubscriptions[key].callback
         payload == PayloadOf(callback, page, result)
     IN
     /\ issues' = SetBucket(issues, page, result)
     /\ readyIds' = ReadyAfterChange(readyIds, callback, page, result)
     /\ IF payload # <<>>
        THEN EnqueueHmr("endpoint-change", key, payload[1])
        ELSE UNCHANGED queueVars
  /\ Quiet
  /\ UNCHANGED <<dirVars, subVars, prevMiddleware, entriesHandling, buildingIds,
                 loading, hmrHash, clients, rawVars, ensureVars, snapshotsEmitted, updateInfo>>

\* the handle startBuilding('middleware', undefined, true) returns
MiddlewareHandle == StartBuilding(BuildState, "middleware", TRUE).handle

\* a change of the middleware endpoint: processIssues, then the callback up to
\* await processMiddleware() (558-559, 966-971)
MiddlewareChangeFires(key) ==
  /\ key \in DOMAIN changeSubscriptions
  /\ changeSubscriptions[key].open
  /\ ~changeSubscriptions[key].busy
  /\ changeSubscriptions[key].callback = "middleware"
  /\ changesEmitted < MaxChanges
  /\ changesEmitted' = changesEmitted + 1
  /\ issues' = SetBucket(issues, RawPathname(key), {})
  /\ LET st == StartBuilding(BuildState, "middleware", TRUE) IN
     /\ buildingIds' = st.building
     /\ readyIds' = st.ready
     /\ loading' = st.loading
  /\ changeSubscriptions' = [changeSubscriptions EXCEPT ![key].busy = TRUE]
  /\ Quiet
  /\ UNCHANGED <<dirVars, orphanCallbacks, prevMiddleware, entriesHandling, queueVars,
                 hmrHash, clients, rawVars, ensureVars, snapshotsEmitted, updateInfo>>

\* the rest of the middleware callback: processMiddleware's processIssues,
\* finishBuilding(), and the sendHmr of the loop (944-958, 972-986, 561-563)
MiddlewareCallbackTail(result) ==
  /\ issues' = SetBucket(issues, "middleware", result)
  /\ LET st == FinishBuilding(BuildState, MiddlewareHandle) IN
     /\ buildingIds' = st.building
     /\ readyIds' = st.ready
     /\ loading' = st.loading
  /\ EnqueueHmr("endpoint-change", SubscriptionKey("middleware", "server"),
                MiddlewareChanges)
  /\ Quiet
  /\ UNCHANGED <<dirVars, prevMiddleware, entriesHandling, hmrHash, clients, rawVars,
                 ensureVars, changesEmitted, snapshotsEmitted, updateInfo>>

\* await processMiddleware() returns in the callback of a registered stream
MiddlewareRebuilt(key, result) ==
  /\ key \in DOMAIN changeSubscriptions
  /\ changeSubscriptions[key].busy
  /\ changeSubscriptions' = [changeSubscriptions EXCEPT ![key].busy = FALSE]
  /\ UNCHANGED orphanCallbacks
  /\ MiddlewareCallbackTail(result)

\* ... in a callback whose stream was removed from the registry meanwhile
OrphanRebuilt(result) ==
  /\ orphanCallbacks > 0
  /\ orphanCallbacks' = orphanCallbacks - 1
  /\ UNCHANGED changeSubscriptions
  /\ MiddlewareCallbackTail(result)

\* await processMiddleware() rejects in the callback (the engine's
\* writeToDisk throws, 945-948): the callback has no try / finally, so
\* finishBuilding() is skipped; the rejection leaves the for-await loop of
\* changeSubscription, which closes the stream and leaves the pair registered
MiddlewareRebuildThrows(key) ==
  /\ key \in DOMAIN changeSubscriptions
  /\ changeSubscriptions[key].busy
  /\ changeSubscriptions' =
       [changeSubscriptions EXCEPT ![key].busy = FALSE, ![key].open = FALSE]
  /\ Quiet
  /\ UNCHANGED <<dirVars, orphanCallbacks, prevMiddleware, entriesHandling, issues,
                 buildVars, queueVars, hmrHash, clients, rawVars, ensureVars,
                 changesEmitted, snapshotsEmitted, updateInfo>>

\* ... in a callback whose stream was removed from the registry meanwhile
OrphanRebuildThrows ==
  /\ orphanCallbacks > 0
  /\ orphanCallbacks' = orphanCallbacks - 1
  /\ Quiet
  /\ UNCHANGED <<dirVars, changeSubscriptions, prevMiddleware, entriesHandling,
                 issues, buildVars, queueVars, hmrHash, clients, rawVars, ensureVars,
                 changesEmitted, snapshotsEmitted, updateInfo>>

\* ------------------------------------------- flushes and the update loop
\* the debounce timer of sendEnqueuedMessagesDebounce fires (400-418)
FlushTimerFires ==
  /\ flushScheduled
  /\ flushScheduled' = FALSE
  /\ Flush
  /\ sent' = SendEnqueuedMessages(issues, hmrPayloads, turbopackUpdates, clients).sent
  /\ outcome' = NoOutcome
  /\ UNCHANGED <<dirVars, subVars, prevMiddleware, entriesHandling, issues, buildVars,
                 hmrHash, clients, rawVars, ensureVars, changesEmitted, snapshotsEmitted,
                 updateInfo>>

\* case 'start': hotReloader.send({ action: BUILDING }) (1524-1527)
UpdateStart ==
  /\ updateInfo # <<>>
  /\ Head(updateInfo) = "start"
  /\ updateInfo' = Tail(updateInfo)
  /\ sent' = <<Send(clients, Building)>>
  /\ outcome' = NoOutcome
  /\ UNCHANGED <<dirVars, subVars, prevMiddleware, entriesHandling, issues, buildVars,
                 queueVars, hmrHash, clients, rawVars, ensureVars, changesEmitted,
                 snapshotsEmitted>>

\* `count` entries of an error list with the same message
Entries(message, count) == {[message |-> message, copy |-> j] : j \in 1..count}

\* an error list with an entry for every issue of every bucket
ErrorsOfEveryBucket(ledger) ==
  UNION {Entries(FormatIssue(issue),
                 Cardinality({n \in DOMAIN ledger : issue \in ledger[n]})) :
           issue \in UNION {ledger[n] : n \in DOMAIN ledger}}

\* the errors of the BUILT message, [...errors.values()]: one entry under
\* each issueKey, that of the first issue found with the key
\* (`if (errors.has(key)) continue`)
BuiltErrors(ledger) ==
  LET all == UNION {ledger[n] : n \in DOMAIN ledger} IN
  UNION {Entries(FormatIssue(CHOOSE issue \in all : IssueKey(issue) = key), 1) :
           key \in {IssueKey(issue) : issue \in all}}

\* an 'end' update answered with the action of a 'start' update
BuildingAgain(hash, ledger) == Building

\* the BUILT message of an 'end' update: hash: String(++hmrHash)
BuiltMessage(hash, ledger) == Built(hash + 1, BuiltErrors(ledger))

\* case 'end': sendEnqueuedMessages(), then BUILT (1528-1560)
UpdateEnd ==
  /\ updateInfo # <<>>
  /\ Head(updateInfo) = "end"
  /\ updateInfo' = Tail(updateInfo)
  /\ Flush
  /\ hmrHash' = hmrHash + 1
  /\ sent' = SendEnqueuedMessages(issues, hmrPayloads, turbopackUpdates, clients).sent
               \o <<Send(clients, BuiltMessage(hmrHash, issues))>>
  /\ outcome' = NoOutcome
  /\ UNCHANGED <<dirVars, subVars, prevMiddleware, entriesHandling, issues, buildVars,
                 flushScheduled, clients, rawVars, ensureVars, changesEmitted,
                 snapshotsEmitted>>

\* --------------------------------------------------- clients (1269-1364)
Clients == {"c1", "c2"}

\* the ids clients subscribe to
RawIds == {"chunk"}

\* a sync message without errors
NoErrors(ledger) == {}

\* the errors of the sync message: every issue of every bucket
SyncErrors(ledger) ==
  {FormatIssue(issue) : issue \in UNION {ledger[n] : n \in DOMAIN ledger}}

\* the raw subscription of a client that holds none for the id
NoSubscriptions == [id \in RawIds |-> "absent"]

\* onHMR: clients.add(client), TURBOPACK_CONNECTED to the client, then
\* this.send(sync) (1269-1272, 1340-1363).  A client is one socket object: a
\* name is taken by a new connection only while nothing is recorded under it
ClientConnects(client) ==
  /\ client \notin clients
  /\ clientToHmrSubscription[client] = NoSubscriptions
  /\ client \notin unrecognized
  /\ clients' = clients \cup {client}
  /\ sent' = <<Send({client}, TurbopackConnected),
               Send(clients', Sync(SyncErrors(issues)))>>
  /\ outcome' = NoOutcome
  /\ UNCHANGED <<dirVars, subVars, prevMiddleware, entriesHandling, issues, buildVars,
                 queueVars, hmrHash, ensureVars, changesEmitted, snapshotsEmitted,
                 updateInfo, rawVars>>

\* client.on('close', () => clients.delete(client)) (1272)
ClientCloses(client) ==
  /\ client \in clients
  /\ clients' = clients \ {client}
  /\ closing' = closing \ {client}
  /\ hmrSubscribed' = {pair \in hmrSubscribed : pair[1] # client}
  /\ Quiet
  /\ UNCHANGED <<dirVars, subVars, prevMiddleware, entriesHandling, issues, buildVars,
                 queueVars, hmrHash, ensureVars, changesEmitted, snapshotsEmitted,
                 updateInfo, clientToHmrSubscription, unrecognized>>

\* ------------------------------------------ raw HMR subscriptions (782-822)
\* a stream whose task is at `await subscription.next()` or in the for-await
Iterating(state) == state \in {"first", "iterating"}

\* a subscription that swallows nothing
NeverSwallows(state) == FALSE

\* await subscription.next(): the item a stream emits first is dropped (793-796)
Swallows(state) == state = "first"

\* hotReloader.send as the target of the reload directive
EveryClient(client, all) == all

\* client.send(JSON.stringify(reloadAction)): the one client (805-812)
ReloadTargets(client, all) == {client}

\* the message listener, case 'turbopack-subscribe':
\* subscribeToHmrEvents(parsedData.path, client) up to its first await (782-796)
SubscribeToHmrEvents(client, id) ==
  /\ client \in clients
  /\ clientToHmrSubscription' =
       IF clientToHmrSubscription[client][id] # "absent"
       THEN clientToHmrSubscription
       ELSE [clientToHmrSubscription EXCEPT ![client][id] = "first"]
  /\ hmrSubscribed' = hmrSubscribed \cup {<<client, id>>}
  /\ Quiet
  /\ UNCHANGED <<dirVars, subVars, prevMiddleware, entriesHandling, issues, buildVars,
                 queueVars, hmrHash, clients, ensureVars, changesEmitted,
                 snapshotsEmitted, updateInfo, closing, unrecognized>>

\* the message listener, case 'turbopack-unsubscribe':
\* unsubscribeToHmrEvents(parsedData.path, client): subscription?.return!()
\* (817-821); the entry stays in the client's mapping
UnsubscribeToHmrEvents(client, id) ==
  /\ client \in clients
  /\ clientToHmrSubscription' =
       IF Iterating(clientToHmrSubscription[client][id])
       THEN [clientToHmrSubscription EXCEPT ![client][id] = "returned"]
       ELSE clientToHmrSubscription
  /\ hmrSubscribed' = hmrSubscribed \ {<<client, id>>}
  /\ Quiet
  /\ UNCHANGED <<dirVars, subVars, prevMiddleware, entriesHandling, issues, buildVars,
                 queueVars, hmrHash, clients, ensureVars, changesEmitted,
                 snapshotsEmitted, updateInfo, closing, unrecognized>>

\* the updates project.hmrEvents(id) may yield
HmrEvents(id) ==
  {[type |-> type, resource |-> id, issues |-> result] :
     type \in {"issues", "partial"}, result \in {{}, {Err1}}}

\* the stream of (client, id) yields: the first item is dropped, a later one
\* goes through processIssues and, unless of type 'issues', through
\* sendTurbopackMessage (793-803)
HmrEventEmitted(client, id, data) ==
  /\ Iterating(clientToHmrSubscription[client][id])
  /\ clientToHmrSubscription' =
       [clientToHmrSubscription EXCEPT ![client][id] = "iterating"]
  /\ IF Swallows(clientToHmrSubscription[client][id])
     THEN UNCHANGED <<issues, queueVars, changesEmitted>>
     ELSE /\ changesEmitted < MaxChanges
          /\ changesEmitted' = changesEmitted + 1
          /\ issues' = SetBucket(issues, id, data.issues)
          /\ IF data.type # "issues"
             THEN EnqueueTurbopackMessage(data)
             ELSE UNCHANGED queueVars
  /\ Quiet
  /\ UNCHANGED <<dirVars, subVars, prevMiddleware, entriesHandling, buildVars,
                 hmrHash, clients, ensureVars, snapshotsEmitted, updateInfo, closing,
                 unrecognized, hmrSubscribed>>

\* the stream of (client, id) raises: the catch block sends RELOAD_PAGE to
\* the client and calls client.close() (804-814)
HmrSubscriptionRaises(client, id) ==
  /\ Iterating(clientToHmrSubscription[client][id])
  /\ clientToHmrSubscription' =
       [clientToHmrSubscription EXCEPT ![client][id] = "failed"]
  /\ sent' = <<Send(ReloadTargets(client, clients), ReloadPage)>>
  /\ closing' = closing \cup {client}
  /\ outcome' = NoOutcome
  /\ UNCHANGED <<dirVars, subVars, prevMiddleware, entriesHandling, issues, buildVars,
                 queueVars, hmrHash, clients, ensureVars, changesEmitted,
                 snapshotsEmitted, updateInfo, unrecognized, hmrSubscribed>>

\* the message listener on a message with neither a known `event` nor a
\* `type`: throw new Error(`unrecognized HMR message ...`) (1274-1338);
\* nothing in the listener closes the socket
UnrecognizedMessage(client) ==
  /\ client \in clients
  /\ unrecognized' = unrecognized \cup {client}
  /\ Quiet
  /\ UNCHANGED <<dirVars, subVars, prevMiddleware, entriesHandling, issues, buildVars,
                 queueVars, hmrHash, clients, ensureVars, changesEmitted,
                 snapshotsEmitted, updateInfo, clientToHmrSubscription, closing,
                 hmrSubscribed>>

\* ------------------------------- the coalescer's entry points, called directly
CoalescingKeys == {"endpoint-change", "entrypoint-change"}
CoalescingIds == {"/a (server)"}
Payloads == {ClientChanges, ReloadPage}
Updates == {"u1"}
\* ... and updates that differ from one another
EveryUpdate == {"u1", "u2"}

\* a caller invokes sendHmr(key, id, payload)
SendHmrCall(key, id, payload) ==
  /\ Len(Opened(batch).entries) < MaxQueue
  /\ EnqueueHmr(key, id, payload)
  /\ Quiet
  /\ UNCHANGED <<dirVars, subVars, prevMiddleware, entriesHandling, issues, buildVars,
                 hmrHash, clients, rawVars, ensureVars, changesEmitted, snapshotsEmitted,
                 updateInfo>>

\* a caller invokes sendTurbopackMessage(payload)
SendTurbopackMessageCall(update) ==
  /\ Len(Opened(batch).unkeyed) < MaxQueue
  /\ EnqueueTurbopackMessage(update)
  /\ Quiet
  /\ UNCHANGED <<dirVars, subVars, prevMiddleware, entriesHandling, issues, buildVars,
                 hmrHash, clients, rawVars, ensureVars, changesEmitted, snapshotsEmitted,
                 updateInfo>>

\* a caller invokes processIssues(issues, name, result) (194-219)
ProcessIssuesCall(name, result) ==
  /\ issues' = SetBucket(issues, name, result)
  /\ Quiet
  /\ UNCHANGED <<dirVars, subVars, prevMiddleware, entriesHandling, buildVars,
                 queueVars, hmrHash, clients, rawVars, ensureVars, changesEmitted,
                 snapshotsEmitted, updateInfo>>

\* ---------------------------------------------------------------- behaviours
\* the registry and the ledger after the snapshot handled during construction
InitialSubscriptions(snapshot) ==
  ChangeSubscription(<<>>, "middleware", "server", snapshot.middleware, "middleware")

InitialIssues(snapshot, result) ==
  IF snapshot.middleware THEN SetBucket(<<>>, "middleware", result) ELSE <<>>

\* the hot reloader as createHotReloaderTurbopack returns it: the first snapshot
\* has been handled (1029)
Init ==
  \E snapshot \in Snapshots :
    \E result \in IF snapshot.middleware THEN MiddlewareResults ELSE {{}} :
      /\ curEntries = EntriesOf(snapshot.routes)
      /\ curAppEntries = AppEntriesOf(snapshot.routes)
      /\ globalEntries = [app |-> snapshot.app, document |-> snapshot.document]
      /\ changeSubscriptions = InitialSubscriptions(snapshot)
      /\ orphanCallbacks = 0
      /\ prevMiddleware = IF snapshot.middleware THEN "true" ELSE "false"
      /\ entriesHandling = Idle
      /\ issues = InitialIssues(snapshot, result)
      /\ buildingIds = {}
      /\ readyIds = {}
      /\ loading = FALSE
      /\ hmrPayloads = <<>>
      /\ turbopackUpdates = <<>>
      /\ flushScheduled = FALSE
      /\ batch = NoBatch
      /\ hmrHash = 0
      /\ clients = {}
      /\ ensure = [slot \in Slots |-> NoCall]
      /\ ensureCalls = 0
      /\ outcome = NoOutcome
      /\ changesEmitted = 0
      /\ snapshotsEmitted = 0
      /\ updateInfo = <<>>
      /\ clientToHmrSubscription = [client \in Clients |-> NoSubscriptions]
      /\ closing = {}
      /\ unrecognized = {}
      /\ hmrSubscribed = {}
      /\ sent = <<>>

EntriesNext ==
  \/ \E snapshot \in Snapshots : HandleEntries(snapshot)
  \/ HandleEntriesPruned
  \/ \E result \in MiddlewareResults : HandleEntriesMiddleware(result)
  \/ HandleEntriesDone

DirectoryNext ==
  \/ \E snapshot \in EverySnapshot : HandleEntries(snapshot)
  \/ HandleEntriesPruned
  \/ \E result \in MiddlewareResults : HandleEntriesMiddleware(result)
  \/ HandleEntriesDone

\* the steps of a running ensurePage call
EnsureSteps ==
  \/ \E slot \in Slots, result \in ShellResults : EnsureAppWritten(slot, result)
  \/ \E slot \in Slots, result \in ShellResults : EnsureDocumentWritten(slot, result)
  \/ \E slot \in Slots, result \in EndpointResults : EnsureWritten(slot, result)
  \/ \E slot \in Slots, result \in EndpointResults : EnsureFinish(slot, result)
  \/ \E slot \in Slots : EnsureAppPageFinish(slot)

EnsureNext ==
  \/ \E slot \in Slots, req \in Requests : EnsurePage(slot, req)
  \/ EnsureSteps

\* ensurePage calls whose endpoints report no issue
ReadersNext ==
  \/ \E slot \in Slots, req \in Requests : EnsurePage(slot, req)
  \/ \E slot \in Slots : EnsureAppWritten(slot, {})
  \/ \E slot \in Slots : EnsureDocumentWritten(slot, {})
  \/ \E slot \in Slots : EnsureWritten(slot, {})
  \/ \E slot \in Slots : EnsureFinish(slot, {})
  \/ \E slot \in Slots : EnsureAppPageFinish(slot)

RoutingNext ==
  \/ \E slot \in Slots, req \in RoutingRequests : EnsurePage(slot, req)
  \/ EnsureSteps

ChangeNext ==
  \/ \E key \in SubscriptionKeys, result \in ChangeIssues : ChangeFires(key, result)
  \/ \E key \in SubscriptionKeys : MiddlewareChangeFires(key)
  \/ \E key \in SubscriptionKeys, result \in MiddlewareResults :
       MiddlewareRebuilt(key, result)
  \/ \E key \in SubscriptionKeys : MiddlewareRebuildThrows(key)

OrphanNext ==
  \/ \E result \in MiddlewareResults : OrphanRebuilt(result)
  \/ OrphanRebuildThrows

MiddlewareNext ==
  \/ \E key \in SubscriptionKeys : MiddlewareChangeFires(key)
  \/ \E key \in SubscriptionKeys, result \in MiddlewareResults :
       MiddlewareRebuilt(key, result)
  \/ \E key \in SubscriptionKeys : MiddlewareRebuildThrows(key)
  \/ OrphanNext

UpdateNext == UpdateStart \/ UpdateEnd

ClientNext ==
  \/ \E client \in Clients : ClientConnects(client)
  \/ \E client \in Clients : ClientCloses(client)

RawNext ==
  \/ \E client \in Clients, id \in RawIds : SubscribeToHmrEvents(client, id)
  \/ \E client \in Clients, id \in RawIds : UnsubscribeToHmrEvents(client, id)
  \/ \E client \in Clients, id \in RawIds :
       \E data \in HmrEvents(id) : HmrEventEmitted(client, id, data)
  \/ \E client \in Clients, id \in RawIds : HmrSubscriptionRaises(client, id)
  \/ \E client \in Clients : UnrecognizedMessage(client)

CoalescerNext ==
  \/ \E key \in CoalescingKeys, id \in CoalescingIds, payload \in Payloads :
       SendHmrCall(key, id, payload)
  \/ \E update \in Updates : SendTurbopackMessageCall(update)
  \/ \E name \in {"/a"}, result \in {{}, {Err1}} : ProcessIssuesCall(name, result)
  \/ FlushTimerFires

\* the coalescer with one keyed payload and unkeyed updates that differ
BatchNext ==
  \/ SendHmrCall("endpoint-change", "/a (server)", ClientChanges)
  \/ \E update \in EveryUpdate : SendTurbopackMessageCall(update)
  \/ \E name \in {"/a"}, result \in {{}, {Err1}} : ProcessIssuesCall(name, result)
  \/ FlushTimerFires

Next ==
  \/ EntriesNext
  \/ EnsureNext
  \/ ChangeNext
  \/ OrphanNext
  \/ FlushTimerFires
  \/ UpdateNext
  \/ ClientNext
  \/ RawNext

Spec == Init /\ [][Next]_vars

\* ensurePage calls on a steady directory
SpecRequests == Init /\ [][EnsureNext]_vars

\* ensurePage calls of every shape on a steady directory
SpecRouting == Init /\ [][RoutingNext]_vars

\* ensurePage calls and change events on a steady directory
SpecEnsure == Init /\ [][EnsureNext \/ ChangeNext]_vars

\* directory snapshots arriving while ensurePage calls and change callbacks run
SpecEntries == Init /\ [][EntriesNext \/ EnsureNext]_vars

\* ensurePage calls, the update loop and the clients
SpecBuild == Init /\ [][EnsureNext \/ UpdateNext \/ ClientNext]_vars

\* the event coalescer driven through its entry points
SpecCoalescer == Init /\ [][CoalescerNext]_vars

\* the event coalescer fed with unkeyed updates that differ
SpecBatch == Init /\ [][BatchNext]_vars

\* directory snapshots of every shape arriving while ensurePage calls run
SpecDirectory == Init /\ [][DirectoryNext \/ ReadersNext]_vars

\* directory snapshots arriving while the middleware change callback runs
SpecMiddleware == Init /\ [][EntriesNext \/ MiddlewareNext]_vars

\* the clients, their raw subscriptions and the debounced flush
SpecClients == Init /\ [][ClientNext \/ RawNext \/ FlushTimerFires]_vars

\* the update loop is a task of its own: a delivered update is handled
SpecBuildFair == SpecBuild /\ WF_vars(UpdateNext)

\* -------------------------------------------------------------------- claims
\* some bucket of the ledger holds an issue
BucketNonEmpty == \E name \in DOMAIN issues : issues[name] # {}

\* the ensurePage call that ended in the last step reached handleRouteType
Ended == outcome.type # None

\* C1: no unit key is in the building set and in the ready set at once.
ReadySetExclusivity == buildingIds \cap readyIds = {}

\* the debounce timer fires in this step
TimerFlush == flushScheduled /\ ~flushScheduled'

\* the payload of the last enqueue under a key
LastPayload(entries, key) ==
  entries[CHOOSE i \in 1..Len(entries) :
            /\ entries[i].key = key
            /\ \A j \in (i + 1)..Len(entries) : entries[j].key # key].payload

Delivered(b, msg) == \E i \in 1..Len(b.delivered) : b.delivered[i] = msg

\* C2: a flush that runs while some bucket is non-empty sends nothing and
\* leaves the keyed queue and the unkeyed batch as they were; the flush that
\* runs once every bucket is empty sends what was pending since the last flush
\* that sent: the last payload of every key and the unkeyed updates.
ErrorGating ==
  /\ [][(TimerFlush /\ BucketNonEmpty)
          => /\ sent' = <<>>
             /\ hmrPayloads' = hmrPayloads
             /\ turbopackUpdates' = turbopackUpdates]_vars
  /\ [](batch.flushed
          => /\ \A i \in 1..Len(batch.entries) :
                  Delivered(batch, LastPayload(batch.entries, batch.entries[i].key))
             /\ batch.unkeyed # <<>>
                  => Delivered(batch, TurbopackMessage(batch.unkeyed)))

\* a batch that a flush found gated and a later flush delivered
GatedThenReleased ==
  /\ batch.flushed
  /\ batch.gated
  /\ batch.entries # <<>>
  /\ batch.unkeyed # <<>>

KeysOf(entries) == {entries[i].key : i \in 1..Len(entries)}

IsKeyed(msg) == msg.kind # "turbopack-message"

Occurrences(seq, x) == Cardinality({i \in 1..Len(seq) : seq[i] = x})

\* C3: the flush of a batch of keyed enqueues under k distinct keys sends
\* exactly k keyed messages, one per key, each with the payload of the last
\* enqueue of its key.
LastWriteWins ==
  batch.flushed
    => LET keyed == SelectSeq(batch.delivered, IsKeyed) IN
       /\ Len(keyed) = Cardinality(KeysOf(batch.entries))
       /\ \A i \in 1..Len(batch.entries) :
            Occurrences(keyed, batch.entries[i].payload)
              = Cardinality({k \in KeysOf(batch.entries) :
                               LastPayload(batch.entries, k) = batch.entries[i].payload})

\* three enqueues under two keys, the repeated key with two payloads, flushed
CoalescedFlush ==
  /\ batch.flushed
  /\ Len(batch.entries) = 3
  /\ Cardinality(KeysOf(batch.entries)) = 2
  /\ \E i, j \in 1..3 :
       /\ i < j
       /\ batch.entries[i].key = batch.entries[j].key
       /\ batch.entries[i].payload # batch.entries[j].payload

\* C4: an ensurePage call that finds its unit in the ready set, made right
\* after a call for the same unit returned, brings the materializations of the
\* two calls to at most one.
EnsureIdempotence ==
  (Ended /\ outcome.handle.inert /\ outcome.prior.req = outcome.req)
    => outcome.prior.materialized + outcome.materialized <= 1

\* a name the directory holds: a route, an app-router original name, the
\* middleware, the _app or the _document endpoint
InDirectory(name) ==
  \/ name \in DOMAIN curEntries
  \/ name \in DOMAIN curAppEntries
  \/ name = "middleware" /\ prevMiddleware = "true"
  \/ name = "_app" /\ globalEntries.app
  \/ name = "_document" /\ globalEntries.document

\* handleEntries ends the processing of a snapshot in this step
ProcessingEnds == entriesHandling.pc = "final" /\ entriesHandling'.pc = "idle"

\* C5: when the processing of a snapshot ends, no change subscription of a
\* unit the snapshot lacks is registered.
SubscriptionsFollowDirectory ==
  [][ProcessingEnds
       => \A key \in DOMAIN changeSubscriptions : InDirectory(RawPathname(key))]_vars

\* C6: when the processing of a snapshot ends, the ledger holds no bucket of a
\* unit the snapshot lacks.
LedgerFollowsDirectory ==
  [][ProcessingEnds => \A name \in DOMAIN issues : InDirectory(name)]_vars

\* the error and fatal issues outside dependency paths
Blocking(result) ==
  {issue \in result :
     /\ issue.severity \in {"error", "fatal"}
     /\ issue.filePath # DepErr1.filePath}

\* C7: an ensurePage call for an app-page or app-route whose materialization
\* reports an error or fatal issue outside a dependency path throws, and the
\* message holds the formatted message of every such issue.
AppRouterEnsureThrows ==
  (Ended /\ outcome.type \in {"app-page", "app-route"} /\ Blocking(outcome.result) # {})
    => /\ outcome.error = "ModuleBuildError"
       /\ \A issue \in Blocking(outcome.result) : FormatIssue(issue) \in outcome.message

\* an app-route call thrown with the messages of an error and a fatal issue
AppRouteThrown ==
  /\ outcome.type = "app-route"
  /\ outcome.error = "ModuleBuildError"
  /\ outcome.message = {FormatIssue(Err1), FormatIssue(Fatal1)}

\* C8: after ensurePage threw for a blocking issue, the unit is not in the
\* ready set.
FailedBuildNotReady ==
  outcome.error = "ModuleBuildError" => outcome.req.pathname \notin readyIds

\* C9: an ensurePage call for a unit of the directory, not ready when called,
\* whose materialization reports no issue returns without error, had the unit
\* in the building set, and leaves it in the ready set and out of the building
\* set.
EnsureSucceeds ==
  (Ended /\ ~outcome.handle.inert /\ outcome.result = {})
    => /\ outcome.error = ""
       /\ outcome.wasBuilding
       /\ outcome.req.pathname \in readyIds
       /\ outcome.req.pathname \notin buildingIds

\* 'end' updates the engine has emitted
EndsEmitted ==
  hmrHash + Cardinality({i \in 1..Len(updateInfo) : updateInfo[i] = "end"})

BuiltIn(messages) == {i \in 1..Len(messages) : messages[i].msg.kind = "built"}

\* the update loop takes an 'end' update in this step
EndConsumed ==
  updateInfo # <<>> /\ Head(updateInfo) = "end" /\ updateInfo' = Tail(updateInfo)

FirstItemTaken(client, id) ==
  /\ clientToHmrSubscription[client][id] = "first"
  /\ clientToHmrSubscription'[client][id] = "iterating"

\* the stream of (client, id) hands a later item to the task in this step
LaterItemTaken(client, id) ==
  /\ clientToHmrSubscription[client][id] = "iterating"
  /\ changesEmitted' = changesEmitted + 1

\* C11: the first item a raw subscription's stream emits is swallowed: the step
\* that takes it sends nothing to any client, appends nothing to the unkeyed
\* batch and records nothing in the ledger; a later item is processed (its
\* issues are recorded under the subscription's id).
FirstItemSwallowed ==
  [][\A client \in Clients, id \in RawIds :
       /\ FirstItemTaken(client, id)
            => /\ sent' = <<>>
               /\ turbopackUpdates' = turbopackUpdates
               /\ hmrPayloads' = hmrPayloads
               /\ issues' = issues
       /\ LaterItemTaken(client, id) => id \in DOMAIN issues']_vars

\* a subscription is past its first item and nothing has been recorded,
\* queued or sent for it
FirstItemDropped ==
  \E client \in Clients, id \in RawIds :
    /\ clientToHmrSubscription[client][id] = "iterating"
    /\ changesEmitted = 0
    /\ id \notin DOMAIN issues
    /\ turbopackUpdates = <<>>
    /\ batch = NoBatch

\* the clients that ever subscribed to the id
SubscribersOf(id) == {client \in Clients : clientToHmrSubscription[client][id] # "absent"}

\* C12: an item of a client's raw subscription is forwarded to that client
\* only: every turbopack message on the wire goes to subscribers of the ids of
\* the items it carries.
ForwardedToSubscriberOnly ==
  \A i \in 1..Len(sent) :
    sent[i].msg.kind = "turbopack-message"
      => \A j \in 1..Len(sent[i].msg.pages) :
           sent[i].to \subseteq SubscribersOf(sent[i].msg.pages[j].resource)

\* ------------------------------------------- middleware, change subscriptions
\* a step of handleEntries
HandlesEntries == entriesHandling' # entriesHandling

\* handleEntries compares prevMiddleware with the snapshot in this step (886-901)
MiddlewareChecked ==
  /\ entriesHandling.pc \in {"idle", "prune"}
  /\ entriesHandling'.pc \in {"middleware", "final"}

\* the snapshot in hand differs from the one before it in middleware presence
PresenceChanged == (prevMiddleware = "true") # entriesHandling'.snapshot.middleware

MiddlewareKeys == {"entrypoint-change:middleware", "endpoint-change:middleware"}

\* the entries of an insertion-ordered Map
EntriesIn(map) == {map[i] : i \in 1..Len(map)}

\* C13: when middleware presence differs between consecutive snapshots, the
\* processing of the later snapshot enqueues exactly one middleware-changed
\* notification, and no step of that processing adds a key to the building set.
MiddlewareTransition ==
  [][HandlesEntries
       => /\ buildingIds' = buildingIds
          /\ IF MiddlewareChecked /\ PresenceChanged
             THEN \E key \in MiddlewareKeys :
                    /\ [key |-> key, payload |-> MiddlewareChanges]
                         \in EntriesIn(hmrPayloads')
                    /\ \A e \in EntriesIn(hmrPayloads') :
                         e.key # key => e \in EntriesIn(hmrPayloads)
                    /\ \A e \in EntriesIn(hmrPayloads) :
                         e.key # key => e \in EntriesIn(hmrPayloads')
                    /\ Len(hmrPayloads') = Cardinality(MapKeys(hmrPayloads'))
                    /\ batch'.entries =
                         Append(Opened(batch).entries,
                                [key |-> key, payload |-> MiddlewareChanges])
             ELSE hmrPayloads' = hmrPayloads /\ batch' = batch]_vars

\* a snapshot that changed middleware presence has been processed up to its
\* last await: one notification is queued and nothing is building
MiddlewareTransitionNotified ==
  /\ entriesHandling.pc = "final"
  /\ Len(hmrPayloads) = 1
  /\ hmrPayloads[1].key \in MiddlewareKeys
  /\ hmrPayloads[1].payload = MiddlewareChanges
  /\ buildingIds = {}

\* C14: a registered (unit-key, phase) pair keeps its one change subscription:
\* a step that leaves the pair registered leaves its callback in place and
\* opens no stream for it, also when a subscribe call arrives while the
\* pair's stream is being closed.
SingleChangeSubscription ==
  [][\A key \in DOMAIN changeSubscriptions \cap DOMAIN changeSubscriptions' :
       /\ changeSubscriptions'[key].callback = changeSubscriptions[key].callback
       /\ changeSubscriptions'[key].open => changeSubscriptions[key].open
       /\ ~(HandlesEntries \/ changeSubscriptions'[key].busy # changeSubscriptions[key].busy)
            => changeSubscriptions'[key] = changeSubscriptions[key]]_vars

\* an ensurePage call of a page ended by subscribing to a pair that is
\* registered and whose stream handleEntries is closing
SubscribedWhileRegistered ==
  /\ outcome.type = "page"
  /\ entriesHandling.pc = "prune"
  /\ entriesHandling.key = SubscriptionKey(outcome.req.page, "server")
  /\ entriesHandling.key \in DOMAIN changeSubscriptions
  /\ ~changeSubscriptions[entriesHandling.key].open

\* C15: cancelling a change subscription is synchronous: once the close of its
\* stream has returned and the pair has left the registry, the old iteration
\* updates the ledger no more and enqueues no more notification.
CancellationSynchronous ==
  [][orphanCallbacks' < orphanCallbacks => UNCHANGED <<issues, hmrPayloads, batch>>]_vars

\* C16: after a client disconnects, it is out of the client set and every raw
\* subscription it owned is cancelled: no stream opened for a client that is
\* not connected is still being iterated.
DisconnectCancelsSubscriptions ==
  \A client \in Clients \ clients, id \in RawIds :
    ~Iterating(clientToHmrSubscription[client][id])

\* the client connects in this step
Connects(client) == client \notin clients /\ client \in clients'

\* the error list holds the formatted form of every issue of every bucket of
\* the ledger, and nothing else
FlattenedLedger(errors, ledger) ==
  /\ \A name \in DOMAIN ledger : \A issue \in ledger[name] : FormatIssue(issue) \in errors
  /\ \A error \in errors :
       \E name \in DOMAIN ledger : \E issue \in ledger[name] : error = FormatIssue(issue)

\* C17: the step in which a client connects sends the connection
\* acknowledgement to that client first, and then, before anything else, a sync
\* event that the client receives and whose error list is the flattened ledger
\* as of that moment.
ConnectHandshake ==
  [][\A client \in Clients :
       Connects(client)
         => /\ Len(sent') = 2
            /\ sent'[1] = [to |-> {client}, msg |-> TurbopackConnected]
            /\ sent'[2].msg.kind = "sync"
            /\ client \in sent'[2].to
            /\ FlattenedLedger(sent'[2].msg.errors, issues)]_vars

\* a client connected while the ledger held an issue and another client was
\* connected: acknowledgement, then a sync event with errors
ConnectedAndSynced ==
  /\ Len(sent) = 2
  /\ sent[1].msg = TurbopackConnected
  /\ sent[2].msg.kind = "sync"
  /\ sent[2].msg.errors # {}
  /\ Cardinality(clients) = 2

\* the stream of (client, id) raises in this step
StreamRaises(client, id) ==
  /\ clientToHmrSubscription[client][id] \in {"first", "iterating"}
  /\ clientToHmrSubscription'[client][id] = "failed"

\* C18: when the iteration of a client's raw subscription raises, the server
\* sends that client a reload directive and closes its connection; no other
\* client is sent the directive or closed.
RaiseReloadsSubscriber ==
  [][\A client \in Clients, id \in RawIds :
       StreamRaises(client, id)
         => /\ sent' = <<[to |-> {client}, msg |-> ReloadPage]>>
            /\ closing' = closing \cup {client}
            /\ clients' = clients]_vars

\* with two clients connected, the subscription of one has raised: the reload
\* directive went to it alone and it alone is being closed
SubscriberReloaded ==
  \E client \in Clients, id \in RawIds :
    /\ clientToHmrSubscription[client][id] = "failed"
    /\ clients = Clients
    /\ closing = {client}
    /\ sent = <<[to |-> {client}, msg |-> ReloadPage]>>

\* C19: a message with neither a recognized event nor a recognized type closes
\* or rejects the connection it came on: a client that sent one is no longer
\* connected, or is being closed.
ProtocolViolationCloses ==
  \A client \in unrecognized : client \notin clients \/ client \in closing

\* ------------------------------------------------------------ build trigger
\* the call in the slot reaches startBuilding(pathname, requestUrl, false) in
\* this step
StartsBuilding(slot) == ensure[slot].pc = "none" /\ ensure'[slot].pc # "none"

\* the call in the slot runs its completion handle in this step
RunsHandle(slot) == ensure[slot].pc # "none" /\ ensure'[slot].pc = "none"

\* C20: startBuilding(id, ctx, false) on a ready unit changes neither the
\* building set, nor the ready set, nor the loading flag, and the handle it
\* returns is inert: running it changes none of them either.
ReadyStartIsNoOp ==
  [][\A slot \in Slots :
       /\ (StartsBuilding(slot) /\ ensure'[slot].req.pathname \in readyIds)
            => /\ UNCHANGED <<buildingIds, readyIds, loading>>
               /\ ensure'[slot].handle.inert
       /\ (RunsHandle(slot) /\ ensure[slot].handle.inert)
            => UNCHANGED <<buildingIds, readyIds, loading>>]_vars

\* an ensurePage call on a ready unit has returned: its handle was inert, the
\* unit is ready, nothing is building and the loading flag is off
ReadyUnitEnsured ==
  /\ outcome.type # None
  /\ outcome.handle.inert
  /\ outcome.req.pathname \in readyIds
  /\ buildingIds = {}
  /\ ~loading

\* ------------------------------------------------------ build state, ledger
\* the middleware change callback of the pair calls
\* startBuilding('middleware', undefined, true) in this step
ForcedStart(key) ==
  /\ key \in DOMAIN changeSubscriptions /\ key \in DOMAIN changeSubscriptions'
  /\ ~changeSubscriptions[key].busy
  /\ changeSubscriptions'[key].busy

\* C21: startBuilding with forceRebuild = true evicts the unit from the ready
\* set before it enters building: right after the call the unit is in
\* building and not in ready.
ForcedRebuildEvicts ==
  [][\A key \in SubscriptionKeys :
       ForcedStart(key)
         => "middleware" \in buildingIds' /\ "middleware" \notin readyIds']_vars

\* C22: the loading indicator tracks the building set: after any interleaving
\* of startBuilding calls and completion handles, duplicate handles for one
\* key included, loading is on exactly when some unit is building.
LoadingTracksBuilding == loading <=> buildingIds # {}

\* two calls started building the same unit; the handle of one has run and
\* emptied the building set while the handle of the other is still to run
DuplicateHandlePending ==
  \E slot \in Slots :
    /\ ensure[slot].pc # "none"
    /\ ~ensure[slot].handle.inert
    /\ ensure[slot].handle.id \in readyIds
    /\ buildingIds = {}
    /\ ~loading

\* the middleware change callback of the pair ends in this step, by returning
\* or by throwing
CallbackEnds(key) ==
  /\ key \in DOMAIN changeSubscriptions /\ key \in DOMAIN changeSubscriptions'
  /\ changeSubscriptions[key].busy
  /\ ~changeSubscriptions'[key].busy

\* C23: every caller of startBuilding runs the completion handle on every exit
\* path, throws included: when the change-driven middleware rebuild ends, the
\* unit it put into building has left it.
HandleRunsOnEveryExit ==
  [][((\E key \in SubscriptionKeys : CallbackEnds(key))
        \/ orphanCallbacks' < orphanCallbacks)
       => "middleware" \notin buildingIds']_vars

\* the issues of a result that processIssues keeps
Kept(result) == {issue \in result : issue.severity \in {"error", "fatal"}}

\* C24: recording replaces the unit's whole bucket: when an ensurePage call
\* has recorded the issues of its route, by returning or by throwing, the
\* bucket of its page holds exactly the kept issues of that recording and
\* nothing of an earlier one.
BucketReplaced ==
  outcome.type # None => issues[outcome.req.page] = Kept(outcome.result)

\* a second call for a unit recorded issues and threw: the bucket holds the
\* issues of this recording
RecordedAgainAndThrew ==
  /\ outcome.error = "ModuleBuildError"
  /\ outcome.handle.inert
  /\ issues[outcome.req.page] = Kept(outcome.result)

\* the severities below error
Lower(issue) == issue.severity \notin {"error", "fatal"}

DependencyPath(filePath) == filePath = "[project]/node_modules/d.js"

\* C26: an error or fatal issue inside node_modules is retained in the bucket
\* but excluded from the throw decision: a throw-on-issue recording whose
\* blocking issues all lie in dependency paths does not throw, and a thrown
\* message names no dependency issue.
DependencyCarveOut ==
  outcome.type \in {"app-page", "app-route"}
    => /\ \A issue \in outcome.result :
            (~Lower(issue) /\ DependencyPath(issue.filePath))
              => issue \in issues[outcome.req.page]
       /\ (\A issue \in outcome.result :
             ~Lower(issue) => DependencyPath(issue.filePath))
            => outcome.error = ""
       /\ \A issue \in outcome.result :
            DependencyPath(issue.filePath) => FormatIssue(issue) \notin outcome.message

\* a throw-on-issue recording whose only blocking issue lies in node_modules
\* returned without throwing, and the issue is in the bucket
DependencyErrorTolerated ==
  /\ outcome.type \in {"app-page", "app-route"}
  /\ outcome.error = ""
  /\ \E issue \in issues[outcome.req.page] :
       issue \in outcome.result /\ DependencyPath(issue.filePath)

\* ------------------------------------------------------------------ routing
\* an ensurePage call ends in this step without reaching handleRouteType
EndsUnrouted == outcome'.req # NoRequest /\ outcome'.type = None

KindMismatchThrows ==
  [][\A slot \in Slots :
       StartsBuilding(slot)
         => LET call == ensure'[slot] IN
            /\ ~(call.req.isApp /\ call.type = "page")
            /\ ~(~call.req.isApp /\ call.type \in {"app-page", "app-route"})]_vars

\* the call in the slot takes a step short of its end: writeManifests() has
\* not returned for it yet
StepsBeforeMerge(slot) ==
  /\ ensure[slot].pc # "none"
  /\ ensure'[slot].pc # "none"
  /\ ensure'[slot] # ensure[slot]

\* the server-phase pair of the unit the call in the slot is for
ServerKey(call) == SubscriptionKey(call.req.page, "server")

\* C29: for every unit kind a successful ensure arms the unit's change
\* subscriptions only after the manifests were merged, and a server-phase
\* subscription of the unit is registered when ensure returns.
EnsureOrder ==
  [][\A slot \in Slots :
       /\ StepsBeforeMerge(slot)
            => (ServerKey(ensure[slot]) \in DOMAIN changeSubscriptions'
                  => ServerKey(ensure[slot]) \in DOMAIN changeSubscriptions)
       /\ (RunsHandle(slot) /\ outcome'.error = "")
            => ServerKey(ensure[slot]) \in DOMAIN changeSubscriptions']_vars

\* ---------------------------------------------------------------- directory
\* handleEntries applies a snapshot in this step
SnapshotApplied == snapshotsEmitted' # snapshotsEmitted

KnownRoutes(routes) ==
  {p \in Pathnames : routes[p] \in {"page", "page-api", "app-page", "app-route"}}

AppRoutes(routes) == {p \in Pathnames : routes[p] \in {"app-page", "app-route"}}

\* an ensurePage call looks its route up in this step
ReadsDirectory == EndsUnrouted \/ \E slot \in Slots : StartsBuilding(slot)

\* C30: the directory is rebuilt wholesale per snapshot: the step that applies
\* a snapshot leaves in the route-path map exactly the snapshot's routes of
\* known kinds and in the logical-name map exactly the original names of its
\* app-router routes (routes of unknown kind are skipped, nothing older
\* survives); no other step writes the maps, and no ensurePage call reads them
\* while a snapshot is being handled.
DirectoryRebuilt ==
  [][/\ IF SnapshotApplied
        THEN LET routes == entriesHandling'.snapshot.routes IN
             /\ DOMAIN curEntries' = KnownRoutes(routes)
             /\ \A p \in KnownRoutes(routes) : curEntries'[p] = routes[p]
             /\ DOMAIN curAppEntries' =
                  {OriginalName(p, routes[p]) : p \in AppRoutes(routes)}
             /\ \A p \in AppRoutes(routes) :
                  curAppEntries'[OriginalName(p, routes[p])] = p
        ELSE UNCHANGED <<curEntries, curAppEntries>>
     /\ ReadsDirectory => entriesHandling.pc = "idle"]_vars

\* a snapshot with a route of unknown kind in the place of a unit that was
\* built from the directory before: the unit is gone from the route-path map
\* while another route of the snapshot is in it
DirectoryReplaced ==
  /\ entriesHandling.pc # "idle"
  /\ \E p \in readyIds \cap Pathnames :
       /\ entriesHandling.snapshot.routes[p] \in UnknownTypes
       /\ p \notin DOMAIN curEntries
  /\ curEntries # <<>>

\* ------------------------------------------------- the unkeyed batch, builds
\* the unkeyed messages among the wire messages of a step
UnkeyedSent(messages) ==
  SelectSeq(messages, LAMBDA m : m.msg.kind = "turbopack-message")

\* C31: the unkeyed batch holds, in enqueue order, every update enqueued since
\* the last flush that sent; a flush of the debounce timer that finds every
\* bucket empty sends the whole batch as one message (none when the batch is
\* empty) and leaves the keyed queue and the unkeyed batch empty.
UnkeyedBatchFlushed ==
  /\ [](turbopackUpdates = IF batch.flushed THEN <<>> ELSE batch.unkeyed)
  /\ [][(TimerFlush /\ ~BucketNonEmpty)
          => /\ UnkeyedSent(sent') =
                  IF turbopackUpdates = <<>> THEN <<>>
                  ELSE <<[to |-> clients,
                          msg |-> [kind |-> "turbopack-message",
                                   pages |-> turbopackUpdates,
                                   hash |-> 0, errors |-> {}]]>>
             /\ hmrPayloads' = <<>>
             /\ turbopackUpdates' = <<>>]_vars

\* two different updates, a gated flush between them, sent in one message in
\* the order of their enqueues, with a keyed payload flushed alongside
UnkeyedBatchSent ==
  /\ batch.flushed
  /\ batch.gated
  /\ batch.entries # <<>>
  /\ batch.unkeyed = <<"u2", "u1">>
  /\ UnkeyedSent(sent) = <<[to |-> clients,
                            msg |-> [kind |-> "turbopack-message",
                                     pages |-> <<"u2", "u1">>,
                                     hash |-> 0, errors |-> {}]]>>
  /\ hmrPayloads = <<>>
  /\ turbopackUpdates = <<>>

\* the ensurePage calls whose writeToDisk of the unit is in flight
Materializing(pathname) ==
  {slot \in Slots : ensure[slot].pc = "write" /\ ensure[slot].req.pathname = pathname}

\* C32: at no moment are two materializations of the same unit in flight.
CompiledOnceConcurrently ==
  \A pathname \in Pathnames : Cardinality(Materializing(pathname)) <= 1

\* handleEntries has cleared and repopulated the directory and is still
\* pruning subscriptions; the step is one of another task
OtherTaskDuringDiff ==
  /\ entriesHandling.pc = "prune"
  /\ entriesHandling' = entriesHandling

\* C33: between the clearing of the directory and the end of the pruning of
\* subscriptions and ledger, no other task inserts into or deletes from the
\* directory, the ledger, the subscription registry or the building and ready
\* sets.
SnapshotDiffSerialized ==
  [][OtherTaskDuringDiff
       => /\ UNCHANGED <<curEntries, curAppEntries, buildingIds, readyIds>>
          /\ DOMAIN issues' = DOMAIN issues
          /\ DOMAIN changeSubscriptions' = DOMAIN changeSubscriptions]_vars

\* the build-complete messages among the wire messages of a step
BuiltSent(messages) == SelectSeq(messages, LAMBDA m : m.msg.kind = "built")

\* the identities of the issues the ledger holds
LedgerIdentities ==
  {<<issue.severity, issue.filePath, issue.title>> :
     issue \in UNION {issues[n] : n \in DOMAIN issues}}

\* the entries of an error list whose message is that of this identity
EntriesFor(errors, identity) ==
  {e \in errors :
     \E issue \in UNION {issues[n] : n \in DOMAIN issues} :
       /\ <<issue.severity, issue.filePath, issue.title>> = identity
       /\ e.message = FormatIssue(issue)}

\* C34: the hash counter starts at 0 and every 'end' update the loop takes, be
\* some bucket non-empty or not, sends exactly one build-complete message; its
\* hash is one more than that of the message before it (1 for the first), and
\* its error list holds exactly one entry for every issue identity of the
\* ledger, whatever the number of buckets that hold the issue.  No other step
\* sends a build-complete message or moves the counter.
BuiltHashAndErrors ==
  /\ hmrHash = 0
  /\ [][IF EndConsumed
        THEN /\ Len(BuiltSent(sent')) = 1
             /\ BuiltSent(sent')[1].msg.hash = hmrHash + 1
             /\ hmrHash' = hmrHash + 1
             /\ \A identity \in LedgerIdentities :
                  Cardinality(EntriesFor(BuiltSent(sent')[1].msg.errors, identity)) = 1
             /\ Cardinality(BuiltSent(sent')[1].msg.errors) = Cardinality(LedgerIdentities)
        ELSE /\ BuiltSent(sent') = <<>>
             /\ hmrHash' = hmrHash]_vars

\* the second build-complete message, sent while two buckets hold the same
\* error: hash 2, the error once
SecondBuiltDeduplicated ==
  /\ BuiltSent(sent) # <<>>
  /\ BuiltSent(sent)[1].msg.hash = 2
  /\ Cardinality({n \in DOMAIN issues : Err1 \in issues[n]}) = 2
  /\ Cardinality({e \in BuiltSent(sent)[1].msg.errors : e.message = FormatIssue(Err1)}) = 1

\* the logical page names under which the unit of a route path is ensured
PageNames(pathname) ==
  IF pathname = "/a" THEN {"/a"} ELSE {OriginalName(pathname, "app-page")}

\* a change event of the server-phase subscription of `page` is handled in this
\* step and its callback reports the change (the event carries no error)
ServerChangeReported(page) ==
  /\ changesEmitted' = changesEmitted + 1
  /\ batch'.entries # <<>>
  /\ batch'.entries = Append(Opened(batch).entries, batch'.entries[Len(batch'.entries)])
  /\ LET entry == batch'.entries[Len(batch'.entries)] IN
     /\ entry.key = "endpoint-change:" \o SubscriptionKey(page, "server")
     /\ entry.payload.kind \in {"serverOnlyChanges", "serverComponentChanges"}

\* C35: a server-phase change event without error issues, handled for a page
\* or app-page unit that is in the ready set, takes the unit out of the ready
\* set.
ChangeEvictsReadyUnit ==
  [][\A pathname \in Pathnames : \A page \in PageNames(pathname) :
       (ServerChangeReported(page) /\ pathname \in readyIds)
         => pathname \notin readyIds']_vars

\* handleEntries takes a step
EntriesStep == entriesHandling' # entriesHandling

\* the snapshot handleEntries is applying in this step
SnapshotInHand ==
  IF entriesHandling.pc = "idle" THEN entriesHandling'.snapshot
  ELSE entriesHandling.snapshot

\* the unit of a subscription key is present in the snapshot being applied
StillPresent(key) ==
  \/ RawPathname(key) \in DOMAIN curEntries'
  \/ RawPathname(key) \in DOMAIN curAppEntries'
  \/ RawPathname(key) = "middleware" /\ SnapshotInHand.middleware
  \/ RawPathname(key) = "_document" /\ SnapshotInHand.document

\* C36: no step of the application of a snapshot closes or removes the change
\* subscription of a unit the snapshot still holds: a page or app unit, the
\* middleware, the _document shell.
SurvivingSubscriptionsUntouched ==
  [][EntriesStep
       => \A key \in DOMAIN changeSubscriptions :
            StillPresent(key)
              => /\ key \in DOMAIN changeSubscriptions'
                 /\ changeSubscriptions'[key] = changeSubscriptions[key]]_vars

\* C37: no step of the application of a snapshot removes or changes the
\* ledger bucket of a page or app unit the snapshot still holds, be the bucket
\* keyed by the route path or by the logical page name of an app-router unit.
SurvivingBucketsUntouched ==
  [][EntriesStep
       => \A name \in DOMAIN issues :
            (name \in DOMAIN curEntries' \/ name \in DOMAIN curAppEntries')
              => /\ name \in DOMAIN issues'
                 /\ issues'[name] = issues[name]]_vars

\* the names under which subscriptions and buckets of a unit are keyed: its
\* route path and its logical page names
UnitNames(pathname) ==
  {pathname} \cup {OriginalName(pathname, type) : type \in {"app-page", "app-route"}}

\* no snapshot is being applied and no ensurePage call for the unit is running
Settled(pathname) ==
  /\ entriesHandling.pc = "idle"
  /\ \A slot \in Slots :
       ensure[slot].pc # "none" => ensure[slot].req.pathname # pathname

\* C38: once the application of a snapshot without a unit and every
\* ensurePage call for the unit have completed, whatever their interleaving, no
\* change subscription and no ledger bucket keyed to the unit is left.
EnsureSnapshotRace ==
  \A pathname \in Pathnames :
    (Settled(pathname) /\ pathname \notin DOMAIN curEntries)
      => /\ \A key \in DOMAIN changeSubscriptions :
              RawPathname(key) \notin UnitNames(pathname)
         /\ \A name \in DOMAIN issues : name \notin UnitNames(pathname)

\* C39: for one client and one id, no step replaces a stream that is being
\* iterated by a new one (a second subscribe opens no second stream), and a
\* connected client whose last message for the id asked to subscribe has a
\* stream open for it (a subscribe after an unsubscribe opens a new one),
\* unless the stream raised.
RawSubscribeRenewable ==
  /\ [][\A client \in Clients, id \in RawIds :
          clientToHmrSubscription[client][id] = "iterating"
            => clientToHmrSubscription'[client][id] # "first"]_vars
  /\ [](\A client \in clients, id \in RawIds :
          (<<client, id>> \in hmrSubscribed
             /\ clientToHmrSubscription[client][id] # "failed")
            => Iterating(clientToHmrSubscription[client][id]))

\* C40: every message sent in the step in which a client connects goes to
\* that client alone: no client connected before receives a message because
\* another one connected.
ConnectReachesOneClient ==
  [][\A client \in Clients :
       Connects(client)
         => \A i \in 1..Len(sent') : sent'[i].to = {client}]_vars

====
